---- MODULE Spec2Model ----
(***************************************************************************)
(* Branch::try_from(&Reader): reconstruction of a virtual branch record    *)
(* from a key-addressed store                                              *)
(* (gitbutler-app/src/virtual_branches/branch.rs).                         *)
(*                                                                         *)
(* The store maps each of the twelve keys to one of: no entry (the reader  *)
(* answers NotFound), an unreadable entry (the reader answers an I/O       *)
(* error), binary content, or UTF-8 text.  try_from is modelled step by    *)
(* step, one action per `let` of the function, so that the order of the    *)
(* reads and the step that fails are part of the state.                    *)
(***************************************************************************)
EXTENDS Naturals, Sequences, FiniteSets, TLC

VARIABLES
    store,    \* what the reader sees: key -> stored entry
    pc,       \* position inside try_from: the next step, or "done"
    locals,   \* the let-bindings of try_from made so far (<<>> = not bound yet)
    reads,    \* the keys passed to reader.read so far, in order
    failed,   \* the step whose `?` returned the error ("" while none has)
    result    \* the Result<Branch, Error> returned once pc = "done"

vars == <<store, pc, locals, reads, failed, result>>

(* ------------------------------ keys --------------------------------- *)

MandatoryKeys ==
    {"id", "meta/name", "meta/tree", "meta/head",
     "meta/created_timestamp_ms", "meta/updated_timestamp_ms", "meta/ownership"}

OptionalKeys ==
    {"meta/notes", "meta/applied", "meta/order", "meta/upstream_head", "meta/upstream"}

Keys == MandatoryKeys \cup OptionalKeys

\* The keys in the order try_from reads them.
KeySeq ==
    <<"id", "meta/name", "meta/notes", "meta/applied", "meta/order",
      "meta/upstream_head", "meta/upstream", "meta/tree", "meta/head",
      "meta/created_timestamp_ms", "meta/updated_timestamp_ms", "meta/ownership">>

\* The steps of try_from in program order: the twelve reads, then the two
\* parses inside the struct literal.
StepSeq == KeySeq \o <<"parse/tree", "parse/head">>

(* --------------------------- store entries --------------------------- *)

Absent     == [tag |-> "Absent", text |-> ""]
Unreadable == [tag |-> "Unreadable", text |-> ""]
Binary     == [tag |-> "Binary", text |-> ""]
UTF8(t)    == [tag |-> "UTF8", text |-> t]

(* ------------------------- Result and errors ------------------------- *)

NoError  == [kind |-> "none", ctx |-> ""]
\* reader::Error::NotFound is a unit variant: it carries no key.
NotFound == [kind |-> "NotFound", ctx |-> ""]
\* An I/O error raised by the reader itself.
IoError  == [kind |-> "Io", ctx |-> ""]
\* A Content -> T conversion error (wrong shape, unparsable number or bool).
FromError == [kind |-> "From", ctx |-> ""]
\* Error::Io(io::Error::new(Other, format!("<key>: {}", e))).
Invalid(key) == [kind |-> "Io", ctx |-> key]

Ok(v)  == [ok |-> TRUE,  val |-> <<v>>, err |-> NoError]
Err(e) == [ok |-> FALSE, val |-> <<>>,  err |-> e]

None    == <<>>
Some(v) == <<v>>

(* ------------------- reader and content conversions ------------------ *)

\* reader.read(key)
read(s, key) ==
    CASE s[key].tag = "Absent"     -> Err(NotFound)
      [] s[key].tag = "Unreadable" -> Err(IoError)
      [] OTHER                     -> Ok(s[key])

\* String::try_from(Content)
StringTryFrom(c) == IF c.tag = "UTF8" THEN Ok(c.text) ELSE Err(FromError)

\* bool::try_from(Content): the text, parsed as a bool
BoolTexts == {"true", "false"}
BoolTryFrom(c) ==
    IF c.tag = "UTF8" /\ c.text \in BoolTexts THEN Ok(c.text = "true") ELSE Err(FromError)

\* usize::try_from(Content), u128::try_from(Content): the text, parsed as an
\* unsigned decimal
DecimalValue == ("0" :> 0) @@ ("7" :> 7) @@ ("1000" :> 1000) @@ ("2000" :> 2000)
UnsignedTryFrom(c) ==
    IF c.tag = "UTF8" /\ c.text \in DOMAIN DecimalValue
    THEN Ok(DecimalValue[c.text]) ELSE Err(FromError)

\* <BranchId as FromStr>::from_str
BranchIdTexts == {"6f1c7a2e-branch"}
ParseBranchId(t) == IF t \in BranchIdTexts THEN Ok([uuid |-> t]) ELSE Err(FromError)

\* <git::Oid as FromStr>::from_str
OidTexts == {"a94a8fe5", "0beec7b5"}
ParseOid(t) == IF t \in OidTexts THEN Ok([oid |-> t]) ELSE Err(FromError)

\* <git::RemoteRefname as FromStr>::from_str
RemoteRefTexts == {"refs/remotes/origin/main"}
ParseRemoteRefname(t) ==
    IF t \in RemoteRefTexts THEN Ok([remote |-> "origin", branch |-> "main"]) ELSE Err(FromError)

\* <Ownership as FromStr>::from_str
OwnershipTexts == {"src/main.rs:1-5"}
ParseOwnership(t) ==
    IF t \in OwnershipTexts
    THEN Ok([files |-> <<[path |-> "src/main.rs", hunks |-> <<[start |-> 1, end |-> 5]>>]>>])
    ELSE Err(FromError)

(* ---------------- the field bindings of Branch::try_from -------------- *)

\* let id: String = reader.read("id")?.try_into()?;
\* let id: BranchId = id.parse().map_err(.. "id: {}" ..)?;
id(s) ==
    LET r == read(s, "id") IN
    IF ~r.ok THEN r ELSE
    LET t == StringTryFrom(r.val[1]) IN
    IF ~t.ok THEN t ELSE
    LET p == ParseBranchId(t.val[1]) IN
    IF p.ok THEN p ELSE Err(Invalid("id"))

\* let name: String = reader.read("meta/name")?.try_into()?;
name(s) ==
    LET r == read(s, "meta/name") IN
    IF ~r.ok THEN r ELSE StringTryFrom(r.val[1])

\* Faulty variant of notes: every read or conversion failure gives "".
notes_lenient(s) ==
    LET r == read(s, "meta/notes")
        c == IF r.ok THEN StringTryFrom(r.val[1]) ELSE Ok("")
    IN  IF c.ok THEN c ELSE Ok("")

\* let notes: String = match reader.read("meta/notes") { .. }?;
notes(s) ==
    LET r == read(s, "meta/notes") IN
    CASE r.ok             -> StringTryFrom(r.val[1])
      [] r.err = NotFound -> Ok("")
      [] OTHER            -> r

\* Faulty variant of applied: absence gives false, any other failure is returned.
applied_strict(s) ==
    LET r == read(s, "meta/applied") IN
    CASE r.ok             -> BoolTryFrom(r.val[1])
      [] r.err = NotFound -> Ok(FALSE)
      [] OTHER            -> r

\* let applied = match reader.read("meta/applied") { .. }.unwrap_or(false);
applied(s) ==
    LET r == read(s, "meta/applied")
        c == IF r.ok THEN BoolTryFrom(r.val[1]) ELSE Ok(FALSE)
    IN  IF c.ok THEN c ELSE Ok(FALSE)

\* Faulty variant of order: the key is required.
order_required(s) ==
    LET r == read(s, "meta/order") IN
    IF ~r.ok THEN r ELSE UnsignedTryFrom(r.val[1])

\* let order: usize = match reader.read("meta/order") { .. }?;
order(s) ==
    LET r == read(s, "meta/order") IN
    CASE r.ok             -> UnsignedTryFrom(r.val[1])
      [] r.err = NotFound -> Ok(0)
      [] OTHER            -> r

\* Faulty variant of upstream_head: every read failure gives None.
upstream_head_lenient(s) ==
    LET r == read(s, "meta/upstream_head") IN
    CASE r.ok /\ r.val[1].tag = "UTF8" ->
            LET p == ParseOid(r.val[1].text) IN
            IF p.ok THEN Ok(Some(p.val[1])) ELSE Err(Invalid("meta/upstream_head"))
      [] OTHER -> Ok(None)

\* let upstream_head = match reader.read("meta/upstream_head") { .. }?;
upstream_head(s) ==
    LET r == read(s, "meta/upstream_head") IN
    CASE r.ok /\ r.val[1].tag = "UTF8" ->
            LET p == ParseOid(r.val[1].text) IN
            IF p.ok THEN Ok(Some(p.val[1])) ELSE Err(Invalid("meta/upstream_head"))
      [] r.ok \/ r.err = NotFound -> Ok(None)
      [] OTHER -> r

\* Faulty variant of upstream: the empty string is parsed like any other text.
upstream_no_sentinel(s) ==
    LET r == read(s, "meta/upstream") IN
    CASE r.ok /\ r.val[1].tag = "UTF8" ->
            LET p == ParseRemoteRefname(r.val[1].text) IN
            IF p.ok THEN Ok(Some(p.val[1])) ELSE Err(Invalid("meta/upstream"))
      [] r.ok \/ r.err = NotFound -> Ok(None)
      [] OTHER -> r

\* let upstream = match reader.read("meta/upstream") { .. }?;
upstream(s) ==
    LET r == read(s, "meta/upstream") IN
    CASE r.ok /\ r.val[1].tag = "UTF8" ->
            IF r.val[1].text = "" THEN Ok(None) ELSE
            LET p == ParseRemoteRefname(r.val[1].text) IN
            IF p.ok THEN Ok(Some(p.val[1])) ELSE Err(Invalid("meta/upstream"))
      [] r.ok \/ r.err = NotFound -> Ok(None)
      [] OTHER -> r

\* Faulty variant of tree: an absent key gives the empty string.
tree_default_on_absence(s) ==
    LET r == read(s, "meta/tree") IN
    CASE r.ok             -> StringTryFrom(r.val[1])
      [] r.err = NotFound -> Ok("")
      [] OTHER            -> r

\* let tree: String = reader.read("meta/tree")?.try_into()?;
tree(s) ==
    LET r == read(s, "meta/tree") IN
    IF ~r.ok THEN r ELSE StringTryFrom(r.val[1])

\* Faulty variant of head: the text is parsed as soon as it is read.
head_eager(s) ==
    LET r == read(s, "meta/head") IN
    IF ~r.ok THEN r ELSE
    LET t == StringTryFrom(r.val[1]) IN
    IF ~t.ok THEN t ELSE
    IF ParseOid(t.val[1]).ok THEN t ELSE Err(Invalid("meta/head"))

\* let head: String = reader.read("meta/head")?.try_into()?;
head(s) ==
    LET r == read(s, "meta/head") IN
    IF ~r.ok THEN r ELSE StringTryFrom(r.val[1])

\* let created_timestamp_ms = reader.read("meta/created_timestamp_ms")?.try_into()?;
created_timestamp_ms(s) ==
    LET r == read(s, "meta/created_timestamp_ms") IN
    IF ~r.ok THEN r ELSE UnsignedTryFrom(r.val[1])

\* Faulty variant of updated_timestamp_ms: an absent key gives 0.
updated_timestamp_ms_optional(s) ==
    LET r == read(s, "meta/updated_timestamp_ms") IN
    CASE r.ok             -> UnsignedTryFrom(r.val[1])
      [] r.err = NotFound -> Ok(0)
      [] OTHER            -> r

\* let updated_timestamp_ms = reader.read("meta/updated_timestamp_ms")?.try_into()?;
updated_timestamp_ms(s) ==
    LET r == read(s, "meta/updated_timestamp_ms") IN
    IF ~r.ok THEN r ELSE UnsignedTryFrom(r.val[1])

\* let ownership_string: String = reader.read("meta/ownership")?.try_into()?;
\* let ownership = ownership_string.parse().map_err(.. "meta/ownership: {}" ..)?;
ownership(s) ==
    LET r == read(s, "meta/ownership") IN
    IF ~r.ok THEN r ELSE
    LET t == StringTryFrom(r.val[1]) IN
    IF ~t.ok THEN t ELSE
    LET p == ParseOwnership(t.val[1]) IN
    IF p.ok THEN p ELSE Err(Invalid("meta/ownership"))

\* Faulty variant of tree_parse: the error names the wrong key.
tree_parse_wrong_key(t) ==
    LET p == ParseOid(t) IN IF p.ok THEN p ELSE Err(Invalid("meta/head"))

\* tree: tree.parse().map_err(.. "meta/tree: {}" ..)?   (inside Ok(Self { .. }))
tree_parse(t) ==
    LET p == ParseOid(t) IN IF p.ok THEN p ELSE Err(Invalid("meta/tree"))

\* head: head.parse().map_err(.. "meta/head: {}" ..)?   (inside Ok(Self { .. }))
head_parse(t) ==
    LET p == ParseOid(t) IN IF p.ok THEN p ELSE Err(Invalid("meta/head"))

\* Ok(Self { id, name, notes, applied, upstream, upstream_head, tree, head, .. })
Branch(l, head_oid) ==
    [id |-> l.id[1], name |-> l.name[1], notes |-> l.notes[1],
     applied |-> l.applied[1], upstream |-> l.upstream[1],
     upstream_head |-> l.upstream_head[1],
     created_timestamp_ms |-> l.created_timestamp_ms[1],
     updated_timestamp_ms |-> l.updated_timestamp_ms[1],
     tree |-> l.tree_oid[1], head |-> head_oid,
     ownership |-> l.ownership[1], order |-> l.order[1]]

(* ------------------------------ stores ------------------------------- *)

\* How many keys of a store may hold something other than what a writer of
\* a well-formed record leaves there.
MaxDeviations == 2

\* What a well-formed record holds under a key; an optional key may be absent.
Usual(k) ==
    CASE k = "id"                        -> {UTF8("6f1c7a2e-branch")}
      [] k = "meta/name"                 -> {UTF8("feature")}
      [] k = "meta/notes"                -> {Absent, UTF8("wip")}
      [] k = "meta/applied"              -> {Absent, UTF8("true")}
      [] k = "meta/order"                -> {Absent, UTF8("7")}
      [] k = "meta/upstream_head"        -> {Absent, UTF8("0beec7b5")}
      [] k = "meta/upstream"             -> {Absent, UTF8("refs/remotes/origin/main")}
      [] k = "meta/tree"                 -> {UTF8("a94a8fe5")}
      [] k = "meta/head"                 -> {UTF8("0beec7b5")}
      [] k = "meta/created_timestamp_ms" -> {UTF8("1000")}
      [] k = "meta/updated_timestamp_ms" -> {UTF8("2000")}
      [] k = "meta/ownership"            -> {UTF8("src/main.rs:1-5")}

\* The other entries a key may hold.
Unusual(k) ==
    CASE k = "id"                        -> {Absent, Unreadable, Binary, UTF8("not-a-uuid")}
      [] k = "meta/name"                 -> {Absent, Unreadable, Binary}
      [] k = "meta/notes"                -> {Unreadable, Binary}
      [] k = "meta/applied"              -> {Unreadable, Binary, UTF8("junk"), UTF8("false")}
      [] k = "meta/order"                -> {Unreadable, Binary, UTF8("junk")}
      [] k = "meta/upstream_head"        -> {Unreadable, Binary, UTF8("not-an-oid"), UTF8("")}
      [] k = "meta/upstream"             -> {Unreadable, Binary, UTF8("not-a-ref"), UTF8("")}
      [] k = "meta/tree"                 -> {Absent, Unreadable, Binary, UTF8("not-an-oid")}
      [] k = "meta/head"                 -> {Absent, Unreadable, Binary, UTF8("not-an-oid")}
      [] k = "meta/created_timestamp_ms" -> {Absent, Unreadable, Binary, UTF8("junk")}
      [] k = "meta/updated_timestamp_ms" -> {Absent, Unreadable, Binary, UTF8("junk")}
      [] k = "meta/ownership"            -> {Absent, Unreadable, Binary, UTF8("not-ownership")}

\* The sets of keys that hold an unusual entry.
DeviationSets == {D \in SUBSET Keys : Cardinality(D) <= MaxDeviations}

Entries(k, D) == IF k \in D THEN Unusual(k) ELSE Usual(k)

\* store is a store whose unusual entries are exactly under the keys of D.
StoreWith(D) ==
    \E e1 \in Entries(KeySeq[1], D), e2 \in Entries(KeySeq[2], D),
       e3 \in Entries(KeySeq[3], D), e4 \in Entries(KeySeq[4], D),
       e5 \in Entries(KeySeq[5], D), e6 \in Entries(KeySeq[6], D),
       e7 \in Entries(KeySeq[7], D), e8 \in Entries(KeySeq[8], D),
       e9 \in Entries(KeySeq[9], D), e10 \in Entries(KeySeq[10], D),
       e11 \in Entries(KeySeq[11], D), e12 \in Entries(KeySeq[12], D) :
        LET es == <<e1, e2, e3, e4, e5, e6, e7, e8, e9, e10, e11, e12>> IN
        store = [k \in Keys |-> es[CHOOSE i \in DOMAIN KeySeq : KeySeq[i] = k]]

(* --------------------------- the state machine ------------------------ *)

Unbound ==
    [id |-> <<>>, name |-> <<>>, notes |-> <<>>, applied |-> <<>>, order |-> <<>>,
     upstream_head |-> <<>>, upstream |-> <<>>, tree |-> <<>>, head |-> <<>>,
     created_timestamp_ms |-> <<>>, updated_timestamp_ms |-> <<>>,
     ownership |-> <<>>, tree_oid |-> <<>>]

Pending == [ok |-> FALSE, val |-> <<>>, err |-> NoError]

Init ==
    /\ \E D \in DeviationSets : StoreWith(D)
    /\ pc = "id"
    /\ locals = Unbound
    /\ reads = <<>>
    /\ failed = ""
    /\ result = Pending

\* One `let x = <expr>?;` of try_from: bind the value and go on, or return
\* the error.
Bind(step, next, field, r) ==
    /\ pc = step
    /\ IF r.ok
       THEN /\ locals' = [locals EXCEPT ![field] = r.val]
            /\ pc' = next
            /\ UNCHANGED <<failed, result>>
       ELSE /\ pc' = "done"
            /\ failed' = step
            /\ result' = Err(r.err)
            /\ UNCHANGED locals
    /\ UNCHANGED store

ReadId ==
    Bind("id", "meta/name", "id", id(store)) /\ reads' = Append(reads, "id")

ReadName ==
    Bind("meta/name", "meta/notes", "name", name(store))
    /\ reads' = Append(reads, "meta/name")

ReadNotes ==
    Bind("meta/notes", "meta/applied", "notes", notes(store))
    /\ reads' = Append(reads, "meta/notes")

ReadApplied ==
    Bind("meta/applied", "meta/order", "applied", applied(store))
    /\ reads' = Append(reads, "meta/applied")

ReadOrder ==
    Bind("meta/order", "meta/upstream_head", "order", order(store))
    /\ reads' = Append(reads, "meta/order")

ReadUpstreamHead ==
    Bind("meta/upstream_head", "meta/upstream", "upstream_head", upstream_head(store))
    /\ reads' = Append(reads, "meta/upstream_head")

ReadUpstream ==
    Bind("meta/upstream", "meta/tree", "upstream", upstream(store))
    /\ reads' = Append(reads, "meta/upstream")

ReadTree ==
    Bind("meta/tree", "meta/head", "tree", tree(store))
    /\ reads' = Append(reads, "meta/tree")

ReadHead ==
    Bind("meta/head", "meta/created_timestamp_ms", "head", head(store))
    /\ reads' = Append(reads, "meta/head")

ReadCreatedTimestamp ==
    Bind("meta/created_timestamp_ms", "meta/updated_timestamp_ms",
         "created_timestamp_ms", created_timestamp_ms(store))
    /\ reads' = Append(reads, "meta/created_timestamp_ms")

ReadUpdatedTimestamp ==
    Bind("meta/updated_timestamp_ms", "meta/ownership",
         "updated_timestamp_ms", updated_timestamp_ms(store))
    /\ reads' = Append(reads, "meta/updated_timestamp_ms")

ReadOwnership ==
    Bind("meta/ownership", "parse/tree", "ownership", ownership(store))
    /\ reads' = Append(reads, "meta/ownership")

ParseTree ==
    /\ pc = "parse/tree"
    /\ Bind("parse/tree", "parse/head", "tree_oid", tree_parse(locals.tree[1]))
    /\ UNCHANGED reads

\* The last field of the struct literal: its error is returned, or the Branch is.
ParseHead ==
    /\ pc = "parse/head"
    /\ LET r == head_parse(locals.head[1]) IN
       /\ pc' = "done"
       /\ IF r.ok
          THEN /\ result' = Ok(Branch(locals, r.val[1]))
               /\ UNCHANGED failed
          ELSE /\ result' = Err(r.err)
               /\ failed' = "parse/head"
    /\ UNCHANGED <<store, locals, reads>>

Next ==
    \/ ReadId
    \/ ReadName
    \/ ReadNotes
    \/ ReadApplied
    \/ ReadOrder
    \/ ReadUpstreamHead
    \/ ReadUpstream
    \/ ReadTree
    \/ ReadHead
    \/ ReadCreatedTimestamp
    \/ ReadUpdatedTimestamp
    \/ ReadOwnership
    \/ ParseTree
    \/ ParseHead

Spec == Init /\ [][Next]_vars

(* ====================================================================== *)
(* Properties.  The predicates below describe a store by its entries      *)
(* alone, without the field bindings above.                               *)
(* ====================================================================== *)

Done      == pc = "done"
Succeeded == Done /\ result.ok
Failed    == Done /\ ~result.ok

IsAbsent(k)     == store[k] = Absent
IsUnreadable(k) == store[k] = Unreadable
IsBinary(k)     == store[k] = Binary
IsText(k)       == store[k].tag = "UTF8"
Text(k)         == store[k].text

\* reader.read(k) has been called.
WasRead(k) == \E i \in DOMAIN reads : reads[i] = k

\* The stored text has the form the field's parser accepts.
Parses(k) ==
    /\ IsText(k)
    /\ CASE k = "id"                                    -> Text(k) \in BranchIdTexts
         [] k \in {"meta/tree", "meta/head",
                   "meta/upstream_head"}                -> Text(k) \in OidTexts
         [] k = "meta/upstream"                         -> Text(k) \in RemoteRefTexts
         [] k = "meta/ownership"                        -> Text(k) \in OwnershipTexts
         [] k = "meta/applied"                          -> Text(k) \in BoolTexts
         [] k \in {"meta/order", "meta/created_timestamp_ms",
                   "meta/updated_timestamp_ms"}         -> Text(k) \in DOMAIN DecimalValue
         [] OTHER                                       -> TRUE

\* The key holds UTF-8 text that its parser rejects.
BadText(k) == IsText(k) /\ ~Parses(k)

\* The step of load that reads key k goes through.  For meta/tree and
\* meta/head that step only reads the text.
ReadStepOk(k) ==
    CASE k \in {"id", "meta/created_timestamp_ms",
                "meta/updated_timestamp_ms", "meta/ownership"} -> Parses(k)
      [] k \in {"meta/name", "meta/tree", "meta/head"}         -> IsText(k)
      [] k = "meta/notes"         -> IsAbsent(k) \/ IsText(k)
      [] k = "meta/applied"       -> TRUE
      [] k = "meta/order"         -> IsAbsent(k) \/ Parses(k)
      [] k = "meta/upstream_head" -> IsAbsent(k) \/ IsBinary(k) \/ Parses(k)
      [] k = "meta/upstream"      -> IsAbsent(k) \/ IsBinary(k) \/ Parses(k)
                                       \/ (IsText(k) /\ Text(k) = "")

StepOk(st) ==
    CASE st = "parse/tree" -> Parses("meta/tree")
      [] st = "parse/head" -> Parses("meta/head")
      [] OTHER             -> ReadStepOk(st)

StepIndex(st) == CHOOSE i \in DOMAIN StepSeq : StepSeq[i] = st

\* Every step that load runs before step st goes through.
StepsBeforeOk(st) == \A i \in DOMAIN StepSeq : i < StepIndex(st) => StepOk(StepSeq[i])

\* The key whose entry a step works on.
KeyOf(st) ==
    CASE st = "parse/tree" -> "meta/tree"
      [] st = "parse/head" -> "meta/head"
      [] OTHER             -> st

\* The error a failing step returns.
StepError(st) ==
    CASE st \in {"parse/tree", "parse/head"} -> Invalid(KeyOf(st))
      [] IsAbsent(st)                        -> NotFound
      [] IsUnreadable(st)                    -> IoError
      [] BadText(st) /\ st \in {"id", "meta/ownership",
                                "meta/upstream_head", "meta/upstream"} -> Invalid(st)
      [] OTHER                               -> FromError

\* The Branch a store describes.
BranchOf ==
    [id      |-> [uuid |-> Text("id")],
     name    |-> Text("meta/name"),
     notes   |-> IF IsText("meta/notes") THEN Text("meta/notes") ELSE "",
     applied |-> Parses("meta/applied") /\ Text("meta/applied") = "true",
     upstream |-> IF Parses("meta/upstream")
                  THEN Some(ParseRemoteRefname(Text("meta/upstream")).val[1]) ELSE None,
     upstream_head |-> IF Parses("meta/upstream_head")
                       THEN Some([oid |-> Text("meta/upstream_head")]) ELSE None,
     created_timestamp_ms |-> DecimalValue[Text("meta/created_timestamp_ms")],
     updated_timestamp_ms |-> DecimalValue[Text("meta/updated_timestamp_ms")],
     tree |-> [oid |-> Text("meta/tree")],
     head |-> [oid |-> Text("meta/head")],
     ownership |-> ParseOwnership(Text("meta/ownership")).val[1],
     order |-> IF Parses("meta/order") THEN DecimalValue[Text("meta/order")] ELSE 0]

(* ------------------------------- C1 ---------------------------------- *)

\* C1 as stated: whenever a mandatory key is absent, load returns the
\* not-found error and no Branch, whatever the other keys hold.
C1_AsStated ==
    Done /\ (\E k \in MandatoryKeys : IsAbsent(k))
        => ~result.ok /\ result.err = NotFound

\* C1, amended: whenever a mandatory key is absent, load returns an error and
\* no Branch; the error is the not-found error, returned by the read of that
\* key, when every step that load runs before that read goes through.
C1_MissingMandatoryKeyFails ==
    \A k \in MandatoryKeys :
        Done /\ IsAbsent(k)
            => /\ ~result.ok
               /\ result.val = <<>>
               /\ StepsBeforeOk(k) => failed = k /\ result.err = NotFound

C1_Witness ==
    /\ Done
    /\ IsAbsent("meta/tree")
    /\ failed = "meta/tree"
    /\ result = Err(NotFound)

(* ------------------------------- C2 ---------------------------------- *)

SemanticKeys == {"id", "meta/tree", "meta/head", "meta/ownership"}

\* Every field stored before key k (in the order of the reads) is well formed.
FieldsBeforeOk(k) ==
    \A i \in DOMAIN KeySeq :
        i < StepIndex(k) =>
            /\ ReadStepOk(KeySeq[i])
            /\ KeySeq[i] \in {"meta/tree", "meta/head"} => Parses(KeySeq[i])

\* C2 as stated: a mandatory key with text that fails its semantic parse, no
\* earlier field having failed, makes load fail with the invalid-content
\* error naming that key.
C2_AsStated ==
    \A k \in SemanticKeys :
        Done /\ BadText(k) /\ FieldsBeforeOk(k)
            => ~result.ok /\ result.err = Invalid(k)

\* The step of load that parses the text of key k.
ParseStep(k) ==
    CASE k = "meta/tree" -> "parse/tree"
      [] k = "meta/head" -> "parse/head"
      [] OTHER           -> k

\* C2, amended: a mandatory key with text that fails its semantic parse makes
\* load fail with the invalid-content error naming that key when every step
\* that load runs before that parse goes through; for meta/tree and meta/head
\* the parse runs after all twelve reads and the parse of meta/ownership.
C2_BadTextNamesItsKey ==
    \A k \in SemanticKeys :
        Done /\ BadText(k) /\ StepsBeforeOk(ParseStep(k))
            => /\ ~result.ok
               /\ result.val = <<>>
               /\ result.err = Invalid(k)
               /\ failed = ParseStep(k)

C2_Witness ==
    /\ Done
    /\ BadText("meta/tree")
    /\ failed = "parse/tree"
    /\ result = Err(Invalid("meta/tree"))

(* ------------------------------- C3 ---------------------------------- *)

\* C3: every error that load returns carries the name of the key whose read
\* or conversion caused it.
C3_EveryErrorNamesItsKey ==
    Failed => result.err.ctx = KeyOf(failed)

(* ------------------------------- C4 ---------------------------------- *)

\* C4: when the mandatory keys are all present and well formed and each
\* optional key is absent or well formed, load succeeds; an absent optional
\* field has its default and every present field has its stored value.
C4_DefaultsOnAbsence ==
    Done /\ (\A k \in MandatoryKeys : Parses(k))
         /\ (\A k \in OptionalKeys : IsAbsent(k) \/ Parses(k))
        => /\ result.ok
           /\ LET b == result.val[1] IN
              /\ b.notes = IF IsAbsent("meta/notes") THEN "" ELSE Text("meta/notes")
              /\ b.applied = IF IsAbsent("meta/applied")
                             THEN FALSE ELSE (Text("meta/applied") = "true")
              /\ b.order = IF IsAbsent("meta/order")
                           THEN 0 ELSE DecimalValue[Text("meta/order")]
              /\ b.upstream = IF IsAbsent("meta/upstream") THEN None
                              ELSE Some(ParseRemoteRefname(Text("meta/upstream")).val[1])
              /\ b.upstream_head = IF IsAbsent("meta/upstream_head") THEN None
                                   ELSE Some([oid |-> Text("meta/upstream_head")])
              /\ b.id = [uuid |-> Text("id")]
              /\ b.name = Text("meta/name")
              /\ b.tree = [oid |-> Text("meta/tree")]
              /\ b.head = [oid |-> Text("meta/head")]
              /\ b.created_timestamp_ms = DecimalValue[Text("meta/created_timestamp_ms")]
              /\ b.updated_timestamp_ms = DecimalValue[Text("meta/updated_timestamp_ms")]
              /\ b.ownership = ParseOwnership(Text("meta/ownership")).val[1]

C4_Witness ==
    /\ Succeeded
    /\ \A k \in OptionalKeys : IsAbsent(k)
    /\ result.val[1].notes = ""
    /\ result.val[1].applied = FALSE
    /\ result.val[1].order = 0
    /\ result.val[1].upstream = None
    /\ result.val[1].upstream_head = None

(* ------------------------------- C5 ---------------------------------- *)

\* C5: meta/applied never makes load fail.  Once it has been read, applied
\* is the stored value when the content converts to a boolean and false
\* otherwise (read error or unconvertible content), and load has gone on to
\* meta/order.
C5_AppliedNeverFails ==
    /\ failed # "meta/applied"
    /\ WasRead("meta/applied") =>
          /\ locals.applied =
                <<IF Parses("meta/applied") THEN Text("meta/applied") = "true" ELSE FALSE>>
          /\ pc = "meta/order" \/ WasRead("meta/order")
    /\ Succeeded =>
          result.val[1].applied = (Parses("meta/applied") /\ Text("meta/applied") = "true")

C5_Witness ==
    /\ Succeeded
    /\ IsUnreadable("meta/applied") \/ IsBinary("meta/applied") \/ BadText("meta/applied")
    /\ result.val[1].applied = FALSE

(* ------------------------------- C6 ---------------------------------- *)

\* The key is present with unconvertible content, or its read fails with an
\* error other than not-found.
Malformed(k) == IsBinary(k) \/ IsUnreadable(k) \/ BadText(k)

\* C6: meta/notes and meta/order default only on absence: when either is
\* malformed, load fails and returns no Branch; the error is the one of that
\* key's step when every earlier step goes through.
C6_NotesAndOrderFailWhenMalformed ==
    \A k \in {"meta/notes", "meta/order"} :
        /\ Done /\ Malformed(k) =>
              /\ ~result.ok
              /\ result.val = <<>>
              /\ StepsBeforeOk(k) =>
                    /\ failed = k
                    /\ result.err = IF IsUnreadable(k) THEN IoError ELSE FromError
        /\ WasRead(k) /\ Malformed(k) =>
              /\ Failed
              /\ (IF k = "meta/notes" THEN locals.notes ELSE locals.order) = <<>>

C6_Witness ==
    /\ Failed
    /\ IsBinary("meta/notes")
    /\ failed = "meta/notes"
    /\ result.err = FromError
    /\ locals.notes = <<>>

(* ------------------------------- C7 ---------------------------------- *)

\* C7: meta/upstream and meta/upstream_head are tri-state.  Once the key has
\* been read: an absent key or content that is not UTF-8 text gives None
\* without error; text that parses gives Some of the parsed value; text that
\* fails its parse makes load fail with the error naming the key; and for
\* meta/upstream the empty string gives None.
C7_UpstreamTriState ==
    /\ WasRead("meta/upstream_head") =>
          LET k == "meta/upstream_head" IN
          /\ IsAbsent(k) \/ IsBinary(k) =>
                locals.upstream_head = <<None>> /\ failed # k
          /\ Parses(k) =>
                locals.upstream_head = <<Some([oid |-> Text(k)])>> /\ failed # k
          /\ BadText(k) =>
                Failed /\ failed = k /\ result.err = Invalid(k)
                       /\ locals.upstream_head = <<>>
    /\ WasRead("meta/upstream") =>
          LET k == "meta/upstream" IN
          /\ IsAbsent(k) \/ IsBinary(k) =>
                locals.upstream = <<None>> /\ failed # k
          /\ IsText(k) /\ Text(k) = "" =>
                locals.upstream = <<None>> /\ failed # k
          /\ Parses(k) =>
                locals.upstream = <<Some(ParseRemoteRefname(Text(k)).val[1])>> /\ failed # k
          /\ BadText(k) /\ Text(k) # "" =>
                Failed /\ failed = k /\ result.err = Invalid(k)
                       /\ locals.upstream = <<>>
    /\ Succeeded =>
          /\ result.val[1].upstream = locals.upstream[1]
          /\ result.val[1].upstream_head = locals.upstream_head[1]

C7_Witness ==
    /\ Succeeded
    /\ store["meta/upstream"] = UTF8("")
    /\ IsBinary("meta/upstream_head")
    /\ result.val[1].upstream = None
    /\ result.val[1].upstream_head = None

(* ------------------------------- C8 ---------------------------------- *)

LenientKeys == {"meta/applied", "meta/upstream", "meta/upstream_head"}

\* The binding of a lenient key.
LenientLocal(k) ==
    CASE k = "meta/applied"       -> locals.applied
      [] k = "meta/upstream"      -> locals.upstream
      [] k = "meta/upstream_head" -> locals.upstream_head

LenientDefault(k) == IF k = "meta/applied" THEN <<FALSE>> ELSE <<None>>

\* C8 as stated: for meta/applied, meta/upstream and meta/upstream_head a
\* failing read, whatever the reader's error, gives the field's default and
\* is not returned as the error of load.
C8_AsStated ==
    \A k \in LenientKeys :
        WasRead(k) /\ (IsAbsent(k) \/ IsUnreadable(k))
            => failed # k /\ LenientLocal(k) = LenientDefault(k)

\* C8, amended: a not-found read of meta/applied, meta/upstream or
\* meta/upstream_head gives the field's default and is not returned; a read
\* failing with any other reader error gives the default only for
\* meta/applied, while for meta/upstream and meta/upstream_head load returns
\* that error.
C8_ReadFailureOfLenientKeys ==
    \A k \in LenientKeys :
        /\ WasRead(k) /\ IsAbsent(k)
              => failed # k /\ LenientLocal(k) = LenientDefault(k)
        /\ WasRead(k) /\ IsUnreadable(k) =>
              IF k = "meta/applied"
              THEN failed # k /\ LenientLocal(k) = LenientDefault(k)
              ELSE Failed /\ failed = k /\ result = Err(IoError)
                          /\ LenientLocal(k) = <<>>

C8_Witness ==
    /\ Failed
    /\ IsUnreadable("meta/upstream_head")
    /\ IsUnreadable("meta/applied")
    /\ locals.applied = <<FALSE>>
    /\ failed = "meta/upstream_head"
    /\ result = Err(IoError)

(* ------------------------------- C9 ---------------------------------- *)

IsPrefix(p, q) == Len(p) <= Len(q) /\ \A i \in DOMAIN p : p[i] = q[i]

\* The first step of load, in program order, that does not go through.
HasBadStep   == \E i \in DOMAIN StepSeq : ~StepOk(StepSeq[i])
FirstBadStep ==
    StepSeq[CHOOSE i \in DOMAIN StepSeq :
                /\ ~StepOk(StepSeq[i])
                /\ \A j \in DOMAIN StepSeq : j < i => StepOk(StepSeq[j])]

\* C9: load reads the keys in one fixed order, each at most once, and returns
\* the error of the first step that fails, with no read after it; the parses
\* of tree and head come after all twelve reads.  Hence with non-identifier
\* text under meta/tree and a later key missing or malformed, the error is
\* the later key's.
C9_FixedOrderFirstError ==
    /\ IsPrefix(reads, KeySeq)
    /\ pc \in {"parse/tree", "parse/head"} => reads = KeySeq
    /\ Done =>
          IF HasBadStep
          THEN /\ ~result.ok
               /\ failed = FirstBadStep
               /\ result.err = StepError(FirstBadStep)
               /\ reads = SubSeq(KeySeq, 1,
                                 IF FirstBadStep \in Keys
                                 THEN StepIndex(FirstBadStep) ELSE Len(KeySeq))
          ELSE result.ok /\ failed = "" /\ reads = KeySeq
    /\ Done /\ BadText("meta/tree")
            /\ (\E k \in {"meta/head", "meta/created_timestamp_ms",
                          "meta/updated_timestamp_ms", "meta/ownership"} :
                    ~ReadStepOk(k))
          => result.err # Invalid("meta/tree") /\ failed # "parse/tree"

C9_Witness ==
    /\ Failed
    /\ BadText("meta/tree")
    /\ IsAbsent("meta/head")
    /\ failed = "meta/head"
    /\ result = Err(NotFound)
    /\ reads = SubSeq(KeySeq, 1, StepIndex("meta/head"))

(* ------------------------------- C10 --------------------------------- *)

\* The store satisfies the three conditions of C10; meta/applied is not
\* among them.
Loadable ==
    /\ \A k \in MandatoryKeys : Parses(k)
    /\ \A k \in {"meta/notes", "meta/order"} : IsAbsent(k) \/ Parses(k)
    /\ IsAbsent("meta/upstream_head") \/ IsBinary("meta/upstream_head")
          \/ Parses("meta/upstream_head")
    /\ IsAbsent("meta/upstream") \/ IsBinary("meta/upstream")
          \/ store["meta/upstream"] = UTF8("") \/ Parses("meta/upstream")

\* C10: load succeeds exactly when the store is loadable, whatever
\* meta/applied holds, and the Branch returned is the one the store
\* describes, so that every load of the same store returns the same Branch.
C10_SucceedsIffLoadable ==
    Done => /\ result.ok <=> Loadable
            /\ result.ok => result.val = <<BranchOf>>

C10_Witness ==
    /\ Succeeded
    /\ Loadable
    /\ BadText("meta/applied")
    /\ IsBinary("meta/upstream")
    /\ result.val = <<BranchOf>>

====
